---- MODULE Spec2Model ----
(***************************************************************************)
(* Indexed Merkle Tree (imt-rs): the prover-side engine (circuits/imt.rs), *)
(* the node (circuits/node.rs), the root computation (circuits/mod.rs) and *)
(* the mutation verifiers (circuits/insert.rs, update.rs, mutate.rs).      *)
(*                                                                         *)
(* Byte strings are sequences of integers.  Bytes are 0..255.  A digest is *)
(* modelled symbolically as the absorbed input bracketed by the algorithm  *)
(* tag and the token Fin, so that two digests are equal iff algorithm and  *)
(* absorbed bytes are equal (a collision-free hash).  Option<Hash>::None   *)
(* is the empty sequence; a digest is never empty.                         *)
(***************************************************************************)
EXTENDS Integers, Sequences, FiniteSets, TLC

(***************************************************************************)
(* Bounds of the model.                                                    *)
(***************************************************************************)
\* largest tree size the engine is driven to
MaxSize == 4

(***************************************************************************)
(* Key = [u8; 2], Value = [u8; 1]: the inputs the calls are drawn from.    *)
(***************************************************************************)
ZeroKey == <<0, 0>>
DefaultValue == <<0>>
Keys == {<<0, 0>>, <<0, 1>>, <<0, 2>>, <<1, 0>>, <<1, 1>>}
Values == {<<0>>, <<42>>}

None == <<>>

(***************************************************************************)
(* Hashor (node.rs): a stateful absorber and its digest.                   *)
(***************************************************************************)
Keccak == 256
Sha256 == 257
Fin == 258
Factories == {Keccak, Sha256}

\* hasher_factory(): a fresh hasher of the algorithm
new_hasher(f) == [alg |-> f, buf |-> <<>>]
update_hashor(h, input) == [h EXCEPT !.buf = @ \o input]
finalize_hashor_into(h) == <<h.alg>> \o h.buf \o <<Fin>>

RECURSIVE Pow(_, _)
Pow(b, e) == IF e = 0 THEN 1 ELSE b * Pow(b, e - 1)

\* the k low-order bytes of n, most significant first
RECURSIVE be_bytes(_, _)
be_bytes(n, k) == IF k = 0 THEN <<>> ELSE Append(be_bytes(n \div 256, k - 1), n % 256)

\* u64::to_be_bytes
to_be_bytes(n) == be_bytes(n, 8)

(***************************************************************************)
(* Lexicographic order of byte slices (Ord for [u8]).                      *)
(***************************************************************************)
RECURSIVE SliceLess(_, _)
SliceLess(a, b) ==
    IF Len(b) = 0 THEN FALSE
    ELSE IF Len(a) = 0 THEN TRUE
    ELSE IF Head(a) < Head(b) THEN TRUE
    ELSE IF Head(a) > Head(b) THEN FALSE
    ELSE SliceLess(Tail(a), Tail(b))

(***************************************************************************)
(* IMTNode (node.rs).                                                      *)
(***************************************************************************)
IMTNode(index, key, value, next_key) ==
    [index |-> index, key |-> key, value |-> value, next_key |-> next_key]

\* IMTNode::hash: key || value || next_key, the index is not absorbed
hash(node, hasher) ==
    finalize_hashor_into(
        update_hashor(update_hashor(update_hashor(hasher, node.key), node.value),
                      node.next_key))

\* is_ln_of without the case of the last node of the list (next_key zero)
is_ln_of_no_last(node, node_key) ==
    /\ SliceLess(node.key, node_key)
    /\ SliceLess(node_key, node.next_key)

\* is_ln_of without the upper bound: every node with a smaller key qualifies
is_ln_of_key_only(node, node_key) == SliceLess(node.key, node_key)

is_ln_of(node, node_key) ==
    /\ SliceLess(node.key, node_key)
    /\ \/ SliceLess(node_key, node.next_key)
       \/ node.next_key = ZeroKey

(***************************************************************************)
(* One internal node: the match on (left, right) of imt_root and           *)
(* refresh_tree.  (None, None) is unreachable: one side is the own hash.   *)
(***************************************************************************)
combine(f, left, right) ==
    finalize_hashor_into(
        IF left = None THEN update_hashor(new_hasher(f), right)
        ELSE IF right = None THEN update_hashor(new_hasher(f), left)
        ELSE update_hashor(update_hashor(new_hasher(f), left), right))

\* the loop of imt_root over the sibling vector, from position i on
RECURSIVE imt_root_loop(_, _, _, _, _)
imt_root_loop(f, h, index, sibs, i) ==
    IF i > Len(sibs) THEN h
    ELSE LET sibling == sibs[i]
             left == IF index % 2 = 0 THEN h ELSE sibling
             right == IF index % 2 = 0 THEN sibling ELSE h
         IN imt_root_loop(f, combine(f, left, right), index \div 2, sibs, i + 1)

\* imt_root (mod.rs)
imt_root(f, sz, node, sibs) ==
    LET top == imt_root_loop(f, hash(node, new_hasher(f)), node.index, sibs, 1)
    IN finalize_hashor_into(
           update_hashor(update_hashor(new_hasher(f), top), to_be_bytes(sz)))

\* node_exists (mod.rs)
node_exists(f, rt, sz, node, sibs) == rt = imt_root(f, sz, node, sibs)

(***************************************************************************)
(* HashMap: a function on the keys present.                                *)
(***************************************************************************)
Get(m, k) == IF k \in DOMAIN m THEN m[k] ELSE None
Put(m, k, v) == [x \in (DOMAIN m) \cup {k} |-> IF x = k THEN v ELSE m[x]]
\* entry(k).or_default()
OrDefault(m, k) == IF k \in DOMAIN m THEN m ELSE Put(m, k, <<>>)
MapValues(m) == {m[k] : k \in DOMAIN m}

(***************************************************************************)
(* Imt (imt.rs).  An engine is the record of the fields of the struct.     *)
(***************************************************************************)
\* the final step of refresh_tree: the root is always taken with Keccak-256
refresh_root(top, sz) ==
    finalize_hashor_into(
        update_hashor(update_hashor(new_hasher(Keccak), top), to_be_bytes(sz)))

\* the loop of refresh_tree, from `level` on
RECURSIVE refresh_loop(_, _, _, _, _, _, _)
refresh_loop(f, hs, h, index, level, depth, sibs) ==
    IF level >= depth THEN [hashes |-> hs, hash |-> h, siblings |-> sibs]
    ELSE LET sibling_index == IF index % 2 = 0 THEN index + 1 ELSE index - 1
             hs1 == OrDefault(hs, level)
             sibling_hash == Get(hs1[level], sibling_index)
             left == IF index % 2 = 0 THEN h ELSE sibling_hash
             right == IF index % 2 = 0 THEN sibling_hash ELSE h
             h2 == combine(f, left, right)
             index2 == index \div 2
             hs2 == OrDefault(hs1, level + 1)
             hs3 == [hs2 EXCEPT ![level + 1] = Put(@, index2, h2)]
         IN refresh_loop(f, hs3, h2, index2, level + 1, depth,
                         Append(sibs, sibling_hash))

\* Imt::refresh_tree: the engine with cache and root refreshed, and the siblings
refresh_tree(self, node_key) ==
    LET node == self.nodes[node_key]
        f == self.hasher_factory
        h == hash(node, new_hasher(f))
        hs0 == OrDefault(self.hashes, 0)
        hs1 == [hs0 EXCEPT ![0] = Put(@, node.index, h)]
        r == refresh_loop(f, hs1, h, node.index, 0, self.depth, <<>>)
    IN [self |-> [self EXCEPT !.hashes = r.hashes,
                              !.root = refresh_root(r.hash, self.size)],
        siblings |-> r.siblings]

\* Imt::siblings
siblings(self, node_key) ==
    LET node == self.nodes[node_key]
        idx[level \in 0..self.depth] ==
            IF level = 0 THEN node.index ELSE idx[level - 1] \div 2
    IN [l \in 1..self.depth |->
           LET index == idx[l - 1]
               sibling_index == IF index % 2 = 0 THEN index + 1 ELSE index - 1
           IN IF (l - 1) \in DOMAIN self.hashes
              THEN Get(self.hashes[l - 1], sibling_index)
              ELSE None]

\* position of the most significant bit: u64::BITS - leading_zeros - 1
RECURSIVE Msb(_)
Msb(n) == IF n <= 1 THEN 0 ELSE 1 + Msb(n \div 2)

\* refresh_depth without the power-of-two test: the bit position alone
refresh_depth_floor(sz) == Msb(sz)

\* refresh_depth without the power-of-two test: always one more than the bit
refresh_depth_above(sz) == Msb(sz) + 1

\* Imt::refresh_depth
refresh_depth(sz) ==
    LET depth == Msb(sz)
    IN IF sz = Pow(2, depth) THEN depth ELSE depth + 1

\* low_nullifier whose scan tests the key alone: any node with a smaller key
low_nullifier_smaller_key(self, node_key) ==
    {n \in MapValues(self.nodes) : SliceLess(n.key, node_key)}

\* Imt::low_nullifier: find() over the values of a HashMap, whose iteration
\* order is unspecified: any of the nodes that satisfy is_ln_of may be found
low_nullifier(self, node_key) ==
    {n \in MapValues(self.nodes) : is_ln_of(n, node_key)}

(***************************************************************************)
(* IMTMutate (mutate.rs): the witnesses.                                   *)
(***************************************************************************)
IMTMutate_insert(old_root, old_size, ln_node, ln_siblings, node, node_siblings, updated_ln_siblings) ==
    [kind |-> "Insert", old_root |-> old_root, old_size |-> old_size,
     ln_node |-> ln_node, ln_siblings |-> ln_siblings, node |-> node,
     node_siblings |-> node_siblings,
     updated_ln_siblings |-> updated_ln_siblings]

IMTMutate_update(old_root, sz, node, node_siblings, new_value) ==
    [kind |-> "Update", old_root |-> old_root, size |-> sz, node |-> node,
     node_siblings |-> node_siblings, new_value |-> new_value]

\* Imt::new
new(hasher_factory) ==
    LET imt == [root |-> None, size |-> 1, depth |-> 0,
                hasher_factory |-> hasher_factory,
                nodes |-> Put(<<>>, ZeroKey,
                              IMTNode(0, ZeroKey, DefaultValue, ZeroKey)),
                hashes |-> <<>>]
    IN refresh_tree(imt, ZeroKey).self

\* insert_node that copies the low nullifier into the witness after relinking
insert_node_relinked_ln(self, ln_node, key, value) ==
    LET old_root == self.root
        old_size == self.size
        ln_siblings == siblings(self, ln_node.key)
        s1 == [self EXCEPT !.nodes[ln_node.key].next_key = key]
        s2 == refresh_tree(s1, ln_node.key).self
        s3 == [s2 EXCEPT !.size = @ + 1]
        s4 == [s3 EXCEPT !.depth = refresh_depth(s3.size)]
        node == IMTNode(old_size, key, value, ln_node.next_key)
        s5 == [s4 EXCEPT !.nodes = Put(@, node.key, node)]
        r == refresh_tree(s5, key)
        updated_ln_siblings == siblings(r.self, ln_node.key)
    IN [self |-> r.self,
        mutation |-> IMTMutate_insert(old_root, old_size,
                                      s1.nodes[ln_node.key], ln_siblings,
                                      node, r.siblings, updated_ln_siblings)]

\* insert_node that reads the index of the new node after size was incremented
insert_node_late_index(self, ln_node, key, value) ==
    LET old_root == self.root
        old_size == self.size
        ln_siblings == siblings(self, ln_node.key)
        s1 == [self EXCEPT !.nodes[ln_node.key].next_key = key]
        s2 == refresh_tree(s1, ln_node.key).self
        s3 == [s2 EXCEPT !.size = @ + 1]
        s4 == [s3 EXCEPT !.depth = refresh_depth(s3.size)]
        node == IMTNode(s4.size, key, value, ln_node.next_key)
        s5 == [s4 EXCEPT !.nodes = Put(@, node.key, node)]
        r == refresh_tree(s5, key)
        updated_ln_siblings == siblings(r.self, ln_node.key)
    IN [self |-> r.self,
        mutation |-> IMTMutate_insert(old_root, old_size, ln_node, ln_siblings,
                                      node, r.siblings, updated_ln_siblings)]

\* Imt::insert_node after the key-conflict assertion, with ln_node the node
\* that low_nullifier found
insert_node(self, ln_node, key, value) ==
    LET old_root == self.root
        old_size == self.size
        ln_siblings == siblings(self, ln_node.key)
        s1 == [self EXCEPT !.nodes[ln_node.key].next_key = key]
        s2 == refresh_tree(s1, ln_node.key).self
        s3 == [s2 EXCEPT !.size = @ + 1]
        s4 == [s3 EXCEPT !.depth = refresh_depth(s3.size)]
        node == IMTNode(old_size, key, value, ln_node.next_key)
        s5 == [s4 EXCEPT !.nodes = Put(@, node.key, node)]
        r == refresh_tree(s5, key)
        updated_ln_siblings == siblings(r.self, ln_node.key)
    IN [self |-> r.self,
        mutation |-> IMTMutate_insert(old_root, old_size, ln_node, ln_siblings,
                                      node, r.siblings, updated_ln_siblings)]

\* update_node that writes a rebuilt node: the value, and a default next_key
update_node_rebuilt_node(self, key, value) ==
    LET old_root == self.root
        old_node == self.nodes[key]
        s1 == [self EXCEPT !.nodes[key] =
                  IMTNode(old_node.index, key, value, ZeroKey)]
        r == refresh_tree(s1, key)
    IN [self |-> r.self,
        mutation |-> IMTMutate_update(old_root, self.size, old_node, r.siblings,
                                      value)]

\* update_node that stores the value and leaves the hashes and root as found
update_node_no_refresh(self, key, value) ==
    LET old_root == self.root
        old_node == self.nodes[key]
        s1 == [self EXCEPT !.nodes[key].value = value]
    IN [self |-> s1,
        mutation |-> IMTMutate_update(old_root, self.size, old_node,
                                      siblings(self, key), value)]

\* Imt::update_node for a key that is present
update_node(self, key, value) ==
    LET old_root == self.root
        old_node == self.nodes[key]
        s1 == [self EXCEPT !.nodes[key].value = value]
        r == refresh_tree(s1, key)
    IN [self |-> r.self,
        mutation |-> IMTMutate_update(old_root, self.size, old_node, r.siblings,
                                      value)]

(***************************************************************************)
(* The verifiers (insert.rs, update.rs, mutate.rs).                        *)
(***************************************************************************)
Ok(h) == [tag |-> "Ok", root |-> h, msg |-> ""]
Err(m) == [tag |-> "Err", root |-> None, msg |-> m]
Panic(m) == [tag |-> "Panic", root |-> None, msg |-> m]
NotRun == [tag |-> "NotRun", root |-> None, msg |-> ""]

StaleOldRoot == "IMTMutate.old_root is stale"
InvalidLn == "IMTMutate.ln_node is invalid"
InconsistentSiblings == "IMTMutate.updated_ln_siblings is invalid"
NodeNotInTree == "IMTMutate.node is not in the IMT"

\* is_valid_ln without the proof that ln_node is in the old tree
is_valid_ln_unproven(w, f) == is_ln_of(w.ln_node, w.node.key)

\* IMTInsert::is_valid_ln
is_valid_ln(w, f) ==
    /\ is_ln_of(w.ln_node, w.node.key)
    /\ node_exists(f, w.old_root, w.old_size, w.ln_node, w.ln_siblings)

\* verify without the comparison of the root passed with the old_root field
IMTInsert_verify_any_root(w, f, old_root) ==
    IF ~is_valid_ln(w, f) THEN Err(InvalidLn)
    ELSE LET updated_ln == [w.ln_node EXCEPT !.next_key = w.node.key]
             new_size == w.old_size + 1
             root_from_node == imt_root(f, new_size, w.node, w.node_siblings)
             root_from_updated_ln ==
                 imt_root(f, new_size, updated_ln, w.updated_ln_siblings)
         IN IF root_from_node # root_from_updated_ln
            THEN Err(InconsistentSiblings)
            ELSE Ok(root_from_node)

\* verify without the comparison of the two recomputed roots
IMTInsert_verify_one_root(w, f, old_root) ==
    IF old_root # w.old_root THEN Err(StaleOldRoot)
    ELSE IF ~is_valid_ln(w, f) THEN Err(InvalidLn)
    ELSE Ok(imt_root(f, w.old_size + 1, w.node, w.node_siblings))

\* IMTInsert::verify
IMTInsert_verify(w, f, old_root) ==
    IF old_root # w.old_root THEN Err(StaleOldRoot)
    ELSE IF ~is_valid_ln(w, f) THEN Err(InvalidLn)
    ELSE LET updated_ln == [w.ln_node EXCEPT !.next_key = w.node.key]
             new_size == w.old_size + 1
             root_from_node == imt_root(f, new_size, w.node, w.node_siblings)
             root_from_updated_ln ==
                 imt_root(f, new_size, updated_ln, w.updated_ln_siblings)
         IN IF root_from_node # root_from_updated_ln
            THEN Err(InconsistentSiblings)
            ELSE Ok(root_from_node)

\* IMTUpdate::apply: the checks are assertions, a failure aborts the caller
IMTUpdate_apply(w, f, old_root) ==
    IF old_root # w.old_root THEN Panic(StaleOldRoot)
    ELSE IF ~node_exists(f, w.old_root, w.size, w.node, w.node_siblings)
    THEN Panic(NodeNotInTree)
    ELSE LET updated_node == [w.node EXCEPT !.value = w.new_value]
         IN Ok(imt_root(f, w.size, updated_node, w.node_siblings))

\* IMTMutate::verify: the update arm runs the update's only entry point
IMTMutate_verify(w, f, old_root) ==
    IF w.kind = "Insert" THEN IMTInsert_verify(w, f, old_root)
    ELSE IMTUpdate_apply(w, f, old_root)

(***************************************************************************)
(* State: the engine's fields, the witness returned by the last mutation,  *)
(* and the caller's locals around a verification (the root it held before  *)
(* the mutation, the witness it verifies, the root it passes, the result). *)
(***************************************************************************)
VARIABLES root, size, depth, hasher_factory, nodes, hashes,
          mutation, old_root, sut, arg, res

vars == <<root, size, depth, hasher_factory, nodes, hashes,
          mutation, old_root, sut, arg, res>>

Self == [root |-> root, size |-> size, depth |-> depth,
         hasher_factory |-> hasher_factory, nodes |-> nodes, hashes |-> hashes]

NoMutation == [kind |-> "None"]

\* a 32-byte value that is the digest of nothing ([0xff; 32] in the tests)
FakeHash == <<255>>

SetSelf(s) ==
    /\ root' = s.root
    /\ size' = s.size
    /\ depth' = s.depth
    /\ hasher_factory' = s.hasher_factory
    /\ nodes' = s.nodes
    /\ hashes' = s.hashes

Init ==
    \E f \in Factories :
        LET imt == new(f)
        IN /\ root = imt.root
           /\ size = imt.size
           /\ depth = imt.depth
           /\ hasher_factory = imt.hasher_factory
           /\ nodes = imt.nodes
           /\ hashes = imt.hashes
           /\ mutation = NoMutation
           /\ old_root = None
           /\ sut = NoMutation
           /\ arg = None
           /\ res = NotRun

InsertNode(key, value) ==
    /\ size < MaxSize
    /\ key \notin DOMAIN nodes
    /\ \E ln_node \in low_nullifier(Self, key) :
          LET r == insert_node(Self, ln_node, key, value)
          IN /\ SetSelf(r.self)
             /\ mutation' = r.mutation
    /\ old_root' = root
    /\ sut' = NoMutation
    /\ arg' = None
    /\ res' = NotRun

UpdateNode(key, value) ==
    /\ key \in DOMAIN nodes
    /\ LET r == update_node(Self, key, value)
       IN /\ SetSelf(r.self)
          /\ mutation' = r.mutation
    /\ old_root' = root
    /\ sut' = NoMutation
    /\ arg' = None
    /\ res' = NotRun

\* the caller verifies the witness as returned, against a root of its choice
Verify(r) ==
    /\ mutation.kind # "None"
    /\ res = NotRun
    /\ sut' = mutation
    /\ arg' = r
    /\ res' = IMTMutate_verify(mutation, hasher_factory, r)
    /\ UNCHANGED <<root, size, depth, hasher_factory, nodes, hashes,
                   mutation, old_root>>


(***************************************************************************)
(* Tampered witnesses (the tests of insert.rs): the caller alters one part *)
(* of the insert witness it was handed and verifies the altered copy.      *)
(***************************************************************************)
Verified(w, r) ==
    /\ sut' = w
    /\ arg' = r
    /\ res' = IMTMutate_verify(w, hasher_factory, r)
    /\ UNCHANGED <<root, size, depth, hasher_factory, nodes, hashes,
                   mutation, old_root>>

\* test_verify_invalid_old_root, second half: sut.old_root = [0xff; 32], with
\* the rest of the witness as returned or with its ln_node spoiled as well
TamperOldRoot(h) ==
    /\ mutation.kind = "Insert"
    /\ res = NotRun
    /\ h # mutation.old_root
    /\ \E w \in {mutation, [mutation EXCEPT !.ln_node = mutation.node]} :
          Verified([w EXCEPT !.old_root = h], old_root)

\* nodes a caller can put in place of ln_node: the nodes of the tree, and
\* made-up nodes (another slot, another key, value or next_key)
FabricatedNodes(w) ==
    {IMTNode(i, k, v, nk) :
        i \in {w.ln_node.index, w.ln_node.index + 1, w.ln_node.index + 8},
        k \in {w.ln_node.key, ZeroKey},
        v \in Values,
        nk \in {w.ln_node.next_key, ZeroKey, w.node.key}}

\* test_verify_invalid_ln: sut.ln_node = another node
TamperLn ==
    /\ mutation.kind = "Insert"
    /\ res = NotRun
    /\ \E n \in MapValues(nodes) \cup FabricatedNodes(mutation) :
          /\ n # mutation.ln_node
          /\ Verified([mutation EXCEPT !.ln_node = n], mutation.old_root)

SiblingFields == {"ln_siblings", "node_siblings", "updated_ln_siblings"}

\* hashes a caller can put in place of a sibling: [0xff; 32], the leaf hashes
\* of the two nodes of the witness, and every sibling the witness carries
OtherHashes(w) ==
    ({FakeHash, hash(w.node, new_hasher(hasher_factory)),
      hash(w.ln_node, new_hasher(hasher_factory))}
     \cup UNION {{w[field][i] : i \in 1..Len(w[field])} : field \in SiblingFields})
    \ {None}

\* test_verify_invalid_updated_ln_siblings: one present sibling replaced
TamperSibling(field) ==
    /\ mutation.kind = "Insert"
    /\ res = NotRun
    /\ \E i \in 1..Len(mutation[field]), h \in OtherHashes(mutation) :
          /\ mutation[field][i] # None
          /\ h # mutation[field][i]
          /\ Verified([mutation EXCEPT ![field][i] = h], mutation.old_root)

Mutate ==
    \/ \E key \in Keys, value \in Values : InsertNode(key, value)
    \/ \E key \in Keys, value \in Values : UpdateNode(key, value)

Next ==
    \/ \E key \in Keys, value \in Values : InsertNode(key, value)
    \/ \E key \in Keys, value \in Values : UpdateNode(key, value)
    \/ \E r \in {old_root, root, FakeHash} : Verify(r)
    \/ TamperOldRoot(FakeHash)

Spec == Init /\ [][Next]_vars

NextTamperLn == Mutate \/ TamperLn

SpecTamperLn == Init /\ [][NextTamperLn]_vars

NextTamperSibling == Mutate \/ \E field \in SiblingFields : TamperSibling(field)

SpecTamperSibling == Init /\ [][NextTamperSibling]_vars

(***************************************************************************)
(* Witnesses not produced by the engine.  A caller holding the tree builds *)
(* an insert witness for (key, value) whose ln_node and ln_siblings are    *)
(* those of the tree, and whose node_siblings and updated_ln_siblings are  *)
(* taken from another tree: the tree itself (the honest witness), the tree *)
(* with the value of a node other than the low nullifier replaced, or the  *)
(* tree put one level deeper beside a made-up subtree.                     *)
(***************************************************************************)
ForgedInserts(self, key, value) ==
    UNION {
        LET honest == insert_node(self, ln, key, value).mutation
        IN {honest}
           \cup {[honest EXCEPT !.node_siblings = Append(@, FakeHash),
                                !.updated_ln_siblings = Append(@, FakeHash)]}
           \cup {[insert_node(update_node(self, k2, v2).self, ln, key, value).mutation
                     EXCEPT !.old_root = self.root,
                            !.ln_siblings = siblings(self, ln.key)] :
                   k2 \in (DOMAIN self.nodes) \ {ln.key}, v2 \in Values}
        : ln \in low_nullifier(self, key)}

Forge ==
    /\ size < MaxSize
    /\ res = NotRun
    /\ \E key \in Keys \ DOMAIN nodes, value \in Values :
          \E w \in ForgedInserts(Self, key, value) : Verified(w, root)

NextForge == Mutate \/ Forge

SpecForge == Init /\ [][NextForge]_vars

(***************************************************************************)
(* Engine calls that abort: insert_node of a present key and update_node   *)
(* of an absent key panic; the engine is then as the statements that ran   *)
(* before the panic left it.                                               *)
(***************************************************************************)
KeyConflict == "key conflict"
NodeDoesNotExist == "node does not exist"

\* insert_node whose assertion comes after the size and depth were advanced
insert_node_late_assert(self, key, value) ==
    [self EXCEPT !.size = @ + 1, !.depth = refresh_depth(self.size + 1)]

\* Imt::insert_node up to its failed assertion, the first statement
insert_node_key_conflict(self, key, value) == self

\* Imt::update_node up to its failed expect: only old_root was read
update_node_missing(self, key, value) == self

InsertNodeKeyConflict(key, value) ==
    /\ key \in DOMAIN nodes
    /\ SetSelf(insert_node_key_conflict(Self, key, value))
    /\ res' = Panic(KeyConflict)
    /\ sut' = NoMutation
    /\ arg' = None
    /\ UNCHANGED <<mutation, old_root>>

UpdateNodeMissing(key, value) ==
    /\ key \notin DOMAIN nodes
    /\ SetSelf(update_node_missing(Self, key, value))
    /\ res' = Panic(NodeDoesNotExist)
    /\ sut' = NoMutation
    /\ arg' = None
    /\ UNCHANGED <<mutation, old_root>>

NextAbort ==
    \/ Mutate
    \/ \E key \in Keys, value \in Values : InsertNodeKeyConflict(key, value)
    \/ \E key \in Keys, value \in Values : UpdateNodeMissing(key, value)

SpecAbort == Init /\ [][NextAbort]_vars

(***************************************************************************)
(* Reference definitions used by the properties.                           *)
(***************************************************************************)
\* the keys of a set in ascending slice order
RECURSIVE SortKeys(_)
SortKeys(S) ==
    IF S = {} THEN <<>>
    ELSE LET m == CHOOSE x \in S : \A y \in S \ {x} : SliceLess(x, y)
         IN <<m>> \o SortKeys(S \ {m})

\* the smallest d with 2^d >= n
CeilLog2(n) == CHOOSE d \in 0..n : Pow(2, d) >= n /\ \A e \in 0..(d - 1) : Pow(2, e) < n

\* the whole tree hashed bottom-up: lvl maps the indices present at a level
\* to their hashes, d levels remain below the top
RECURSIVE RebuildTop(_, _, _)
RebuildTop(f, lvl, d) ==
    IF d = 0 THEN Get(lvl, 0)
    ELSE RebuildTop(f,
                    [p \in {i \div 2 : i \in DOMAIN lvl} |->
                        combine(f, Get(lvl, 2 * p), Get(lvl, 2 * p + 1))],
                    d - 1)

\* the root rebuilt from the nodes and the size alone, every digest taken
\* with a hasher of the engine's factory
RebuiltRoot ==
    LET f == hasher_factory
        leaves == [i \in {nodes[k].index : k \in DOMAIN nodes} |->
                      hash(CHOOSE n \in MapValues(nodes) : n.index = i,
                           new_hasher(f))]
        top == RebuildTop(f, leaves, CeilLog2(size))
    IN finalize_hashor_into(
           update_hashor(update_hashor(new_hasher(f), top), to_be_bytes(size)))

(***************************************************************************)
(* Properties.                                                             *)
(***************************************************************************)

\* C1: an insert witness returned by the engine, verified with the engine's
\* factory against the root held before the insert, yields Ok(root after).
C1_InsertRoundTrip ==
    (sut.kind = "Insert" /\ sut = mutation /\ arg = old_root) => res = Ok(root)

\* C2: an update witness returned by the engine, verified against the root
\* held before the update, passes both checks and yields the root after.
C2_UpdateRoundTrip ==
    (sut.kind = "Update" /\ sut = mutation /\ arg = old_root) => res = Ok(root)

C7_UpdateVerifyReturnsErrors ==
    sut.kind = "Update" =>
        /\ res.tag # "Panic"
        /\ arg # sut.old_root => res = Err(StaleOldRoot)
        /\ (/\ arg = sut.old_root
            /\ ~node_exists(hasher_factory, sut.old_root, sut.size, sut.node,
                            sut.node_siblings))
              => res = Err(NodeNotInTree)

\* C8: the nodes sorted by key start with the zero key, each node's next_key
\* is the key of the node that follows, the last node's next_key is zero.
C8_LinkedListOrdering ==
    LET s == SortKeys(DOMAIN nodes)
    IN /\ s[1] = ZeroKey
       /\ \A i \in 1..Len(s) :
             /\ nodes[s[i]].key = s[i]
             /\ nodes[s[i]].next_key = IF i < Len(s) THEN s[i + 1] ELSE ZeroKey

\* keys inserted out of order, then an update
C8_Witness ==
    /\ mutation.kind = "Update"
    /\ size = MaxSize
    /\ \E k1, k2 \in DOMAIN nodes :
          /\ k1 # ZeroKey
          /\ SliceLess(k1, k2)
          /\ nodes[k1].index > nodes[k2].index

\* C9: the zero-key node exists with index 0, the default value, and
\* next_key the smallest inserted key (zero if nothing was inserted).
C9_Initialized ==
    /\ ZeroKey \in DOMAIN nodes
    /\ nodes[ZeroKey].index = 0
    /\ nodes[ZeroKey].value = DefaultValue
    /\ LET inserted == DOMAIN nodes \ {ZeroKey}
       IN nodes[ZeroKey].next_key =
             IF inserted = {} THEN ZeroKey ELSE SortKeys(inserted)[1]

\* C10: the root kept incrementally equals the root rebuilt from scratch
\* from the nodes and the size.
C10_RootRederived == root = RebuiltRoot

\* the root the engine obtains by inserting (key, value) into the current tree
EngineRootsAfterInsert(key, value) ==
    {insert_node(Self, ln, key, value).self.root : ln \in low_nullifier(Self, key)}

\* C3: if an insert witness, engine-made or not, verifies to Ok(r') against
\* the root of the current tree, then r' is the root the engine obtains by
\* inserting (node.key, node.value) into that tree.
C3_InsertVerifySound ==
    (sut.kind = "Insert" /\ arg = root /\ res.tag = "Ok") =>
        res.root \in EngineRootsAfterInsert(sut.node.key, sut.node.value)

\* the leaf contents of two nodes: what IMTNode::hash absorbs
SameLeaf(a, b) == a.key = b.key /\ a.value = b.value /\ a.next_key = b.next_key

\* sut is the returned insert witness with its ln_node replaced
LnReplaced ==
    /\ mutation.kind = "Insert"
    /\ sut.kind = "Insert"
    /\ sut.ln_node # mutation.ln_node
    /\ sut = [mutation EXCEPT !.ln_node = sut.ln_node]
    /\ arg = sut.old_root

SiblingReplaced ==
    /\ mutation.kind = "Insert"
    /\ sut.kind = "Insert"
    /\ arg = sut.old_root
    /\ \E field \in SiblingFields :
          \E i \in 1..Len(mutation[field]) :
             /\ mutation[field][i] # None
             /\ Len(sut[field]) = Len(mutation[field])
             /\ sut[field][i] # None
             /\ sut[field][i] # mutation[field][i]
             /\ sut = [mutation EXCEPT ![field][i] = sut[field][i]]

\* C6: changing one present element of ln_siblings, node_siblings or
\* updated_ln_siblings of an engine-made insert witness to another hash makes
\* verify return InvalidLn or InconsistentSiblings, never Ok.
C6_SiblingTamperRejected ==
    SiblingReplaced => res \in {Err(InvalidLn), Err(InconsistentSiblings)}

\* a replaced element of node_siblings caught by the comparison of the roots
C6_Witness ==
    /\ SiblingReplaced
    /\ sut.node_siblings # mutation.node_siblings
    /\ res = Err(InconsistentSiblings)

(***************************************************************************)
(* The shape of the engine's state: indices, depth, low nullifiers.        *)
(***************************************************************************)

\* C11: in every reachable state there are exactly size nodes, each stored
\* under its own key (so no two share a key), and their index fields are
\* exactly 0..size-1 with one node per index.
C11_ContiguousIndices ==
    /\ Cardinality(DOMAIN nodes) = size
    /\ \A k \in DOMAIN nodes : nodes[k].key = k
    /\ {nodes[k].index : k \in DOMAIN nodes} = 0..(size - 1)
    /\ \A j, k \in DOMAIN nodes : nodes[j].index = nodes[k].index => j = k

\* a full tree whose last index went to a key that sorts before older keys
C11_Witness ==
    /\ size = MaxSize
    /\ mutation.kind = "Insert"
    /\ \E k \in DOMAIN nodes :
          /\ nodes[k].index = size - 1
          /\ \E j \in DOMAIN nodes : nodes[j].index < size - 1 /\ SliceLess(k, j)

\* C12: after new and after every insert_node or update_node, depth is the
\* smallest d >= 0 with 2^d >= size.
C12_DepthAdequate ==
    /\ depth \in Nat
    /\ Pow(2, depth) >= size
    /\ \A d \in 0..(depth - 1) : Pow(2, d) < size

\* a size that is not a power of two
C12_Witness == size = 3 /\ depth = 2

\* C13: an insert_node that brings size to 2^k + 1 (k >= 0) increases depth
\* by exactly 1; every other insert_node and every update_node leaves depth
\* unchanged; depth never decreases.
C13_DepthGrowthStep ==
    [][/\ depth' >= depth
       /\ IF size' = size + 1 /\ \E k \in 0..size : size' = Pow(2, k) + 1
          THEN depth' = depth + 1
          ELSE depth' = depth]_vars

\* reached by an insert_node that left depth alone: 3 -> 4 nodes
C13_Witness == size = 4 /\ depth = 2 /\ mutation.kind = "Insert"

\* the keys a caller may ask a low nullifier for: more than are ever inserted
KeySpace == {<<a, b>> : a, b \in 0..2}

\* C14: for every key that is not in the tree exactly one stored node
\* satisfies is_ln_of, so low_nullifier finds the same node in any scan order.
C14_LowNullifierUnique ==
    \A k \in KeySpace \ DOMAIN nodes : Cardinality(low_nullifier(Self, k)) = 1

\* absent keys whose low nullifiers are an inner node and the last node
C14_Witness ==
    \E j, k \in KeySpace \ DOMAIN nodes :
       /\ \E n \in low_nullifier(Self, j) :
             n.key # ZeroKey /\ n.next_key # ZeroKey
       /\ \E n \in low_nullifier(Self, k) :
             n.key # ZeroKey /\ n.next_key = ZeroKey

\* what insert_node(key, value) may leave and return from the current state,
\* one outcome per node the scan of the node map may find
InsertOutcomes(key, value) ==
    {insert_node(Self, ln_node, key, value) : ln_node \in low_nullifier(Self, key)}

\* C15: from any reachable state an insert_node call leaves one possible
\* engine state (root included) and one possible witness, whichever order the
\* node map is scanned in. new and update_node scan nothing, so two engines
\* built with the same factory and given the same calls agree on the root and
\* on the witness after every call.
C15_Deterministic ==
    \A key \in Keys \ DOMAIN nodes : \A value \in Values :
       Cardinality(InsertOutcomes(key, value)) = 1

\* an insert found its low nullifier among several stored nodes, and a
\* further insert is possible
C15_Witness ==
    /\ mutation.kind = "Insert"
    /\ mutation.ln_node.key # ZeroKey
    /\ size = 3
    /\ \E key \in Keys \ DOMAIN nodes :
          \E o \in InsertOutcomes(key, DefaultValue) : o.self.size = 4

\* the last call was update_node(k, v') on a node holding v # v', and this
\* step is update_node(k, v)
UpdateUndone ==
    /\ mutation.kind = "Update"
    /\ mutation.new_value # mutation.node.value
    /\ mutation'.kind = "Update"
    /\ mutation'.node.key = mutation.node.key
    /\ mutation'.node.value = mutation.new_value
    /\ mutation'.new_value = mutation.node.value

\* C16: update_node(k, v') with v' # v followed by update_node(k, v) leaves
\* the engine with the root r it had before the two calls, and the root in
\* between differs from r.
C16_UpdateRestoresRoot ==
    [][UpdateUndone => root' = old_root /\ root # old_root]_vars

\* the zero node, first updated away from the default value, set back to it
\* in a tree with inner levels
C16_Witness ==
    /\ mutation.kind = "Update"
    /\ mutation.node.key = ZeroKey
    /\ mutation.node.value # DefaultValue
    /\ mutation.new_value = DefaultValue
    /\ size = 3
    /\ root # old_root

\* C17: insert_node with a present key (the zero key included) and
\* update_node with an absent key abort, and at the abort root, size, depth,
\* nodes and the hash cache are as they were before the call.
C17_RejectedCallsChangeNothing ==
    [][res'.tag = "Panic" /\ res'.msg \in {KeyConflict, NodeDoesNotExist}
       => UNCHANGED <<root, size, depth, nodes, hashes>>]_vars

\* insert_node of the zero key rejected in a tree that has grown
C17_Witness ==
    /\ res = Panic(KeyConflict)
    /\ mutation.kind = "Insert"
    /\ size = 3

(***************************************************************************)
(* The fresh tree and the hasher of the root.                              *)
(***************************************************************************)
\* the digest of `input` under a fresh hasher of factory f
Digest(f, input) ==
    finalize_hashor_into(update_hashor(new_hasher(f), input))

\* the engine as new left it: no call has been made yet
Fresh == mutation = NoMutation

\* the fresh tree but for its root: one zero node, size 1, depth 0, and a
\* hash cache that holds the leaf level only (no inner level was hashed)
FreshTreeShape ==
    Fresh =>
       /\ nodes = Put(<<>>, ZeroKey, IMTNode(0, ZeroKey, DefaultValue, ZeroKey))
       /\ size = 1
       /\ depth = 0
       /\ DOMAIN hashes = {0}
       /\ hashes[0] = Put(<<>>, 0, Digest(hasher_factory,
                                          ZeroKey \o DefaultValue \o ZeroKey))

\* C18: new(factory) yields one node (zero key, index 0, default value,
\* next_key zero), size 1, depth 0 and
\* root = digest(digest(zero_key || default_value || zero_key) || size 1 as
\* 8 big-endian bytes), with no internal level hashed.
C18_FreshTree ==
    /\ FreshTreeShape
    /\ Fresh =>
          root = Digest(hasher_factory,
                        Digest(hasher_factory,
                               ZeroKey \o DefaultValue \o ZeroKey)
                        \o to_be_bytes(1))

\* C19: the root kept by refresh_tree is the digest, under a fresh hasher of
\* the engine's own factory, of (top hash || size as 8 big-endian bytes), and
\* so equals imt_root(factory, size, node, siblings) for every stored node.
C19_RootUsesOwnHasher ==
    /\ root = Digest(hasher_factory, hashes[depth][0] \o to_be_bytes(size))
    /\ \A k \in DOMAIN nodes :
          root = imt_root(hasher_factory, size, nodes[k], siblings(Self, k))

\* what the code does instead: the last digest is always Keccak-256
RootUsesKeccak ==
    root = Digest(Keccak, hashes[depth][0] \o to_be_bytes(size))

(***************************************************************************)
(* The witness insert_node returns.                                        *)
(***************************************************************************)
\* the fields of the witness w of insert_node(key, value), against the engine
\* before the call (unprimed) and after it (primed)
InsertWitnessContents(w, key, value) ==
    /\ w.kind = "Insert"
    /\ w.old_root = root
    /\ w.old_size = size
    /\ w.ln_node \in MapValues(nodes)
    /\ is_ln_of(w.ln_node, key)
    /\ w.node = IMTNode(size, key, value, w.ln_node.next_key)
    /\ nodes'[key] = w.node
    /\ nodes'[w.ln_node.key] = [w.ln_node EXCEPT !.next_key = key]

\* C20: the witness of insert_node(key, value) has old_root and old_size of
\* the engine before the call, ln_node the low nullifier as stored before the
\* call, node.index = old_size, node.key = key, node.value = value and
\* node.next_key = the low nullifier's pre-call next_key; after the call the
\* stored low nullifier has next_key = key.
C20_InsertWitnessContents ==
    [][\A key \in Keys, value \in Values :
          (/\ size' = size + 1
           /\ key \in DOMAIN nodes'
           /\ InsertNode(key, value))
          => InsertWitnessContents(mutation', key, value)]_vars

\* an insert between two stored non-zero keys: the low nullifier is not the
\* zero node and had a successor, which the new node now points to
C20_Witness ==
    /\ mutation.kind = "Insert"
    /\ res = NotRun
    /\ mutation.ln_node.key # ZeroKey
    /\ mutation.ln_node.next_key # ZeroKey
    /\ mutation.node.next_key = mutation.ln_node.next_key
    /\ nodes[mutation.ln_node.key].next_key = mutation.node.key

(***************************************************************************)
(* What a call may change in the node map.                                 *)
(***************************************************************************)
\* the stored nodes that a step changes
ChangedNodes == {k \in DOMAIN nodes : nodes'[k] # nodes[k]}

\* no node is removed and no node's key or index changes
NodesKept ==
    /\ DOMAIN nodes \subseteq DOMAIN nodes'
    /\ \A k \in DOMAIN nodes :
          nodes'[k].key = nodes[k].key /\ nodes'[k].index = nodes[k].index

\* insert_node(key, _) changes one stored node, the low nullifier of key, and
\* only its next_key
InsertFrame(key) ==
    /\ DOMAIN nodes' = DOMAIN nodes \cup {key}
    /\ \E k \in DOMAIN nodes :
          /\ ChangedNodes = {k}
          /\ is_ln_of(nodes[k], key)
          /\ nodes'[k] = [nodes[k] EXCEPT !.next_key = nodes'[k].next_key]

\* update_node(key, value) changes the value of the target node and nothing
\* else of the nodes, the size or the depth
UpdateFrame(key, value) ==
    /\ size' = size
    /\ depth' = depth
    /\ nodes' = [nodes EXCEPT ![key].value = value]

\* C21: no node is ever removed and no node's key or index ever changes; an
\* insert_node changes exactly one pre-existing node, the low nullifier, and
\* only its next_key; an update_node changes only the value of the target
\* node and leaves size, depth and every other node unchanged.
C21_MutationFrame ==
    [][/\ NodesKept
       /\ \A key \in Keys, value \in Values :
             /\ (/\ size' = size + 1
                 /\ key \in DOMAIN nodes'
                 /\ InsertNode(key, value)) => InsertFrame(key)
             /\ (/\ mutation'.kind = "Update"
                 /\ res' = NotRun
                 /\ mutation'.node.key = key
                 /\ mutation'.new_value = value
                 /\ UpdateNode(key, value)) => UpdateFrame(key, value)]_vars

\* an update that changed the value of a linked inner node of a full tree
C21_Witness ==
    /\ mutation.kind = "Update"
    /\ res = NotRun
    /\ size = MaxSize
    /\ mutation.node.key # ZeroKey
    /\ mutation.node.next_key # ZeroKey
    /\ nodes[mutation.node.key] = [mutation.node EXCEPT !.value = mutation.new_value]
    /\ mutation.new_value # mutation.node.value

(***************************************************************************)
(* Proofs of the stored nodes against the kept root.                       *)
(***************************************************************************)
\* C22: for every present key k, siblings(k) has length depth and
\* imt_root(factory, size, nodes[k], siblings(k)) equals the engine's root,
\* also after depth has grown and for nodes off the last refreshed path.
C22_EveryNodeProvable ==
    \A k \in DOMAIN nodes :
       /\ Len(siblings(Self, k)) = depth
       /\ node_exists(hasher_factory, root, size, nodes[k], siblings(Self, k))

\* the cache itself is never stale: the siblings of every stored node have
\* length depth and fold, from the node's leaf hash, to the cached top hash
SiblingsNeverStale ==
    \A k \in DOMAIN nodes :
       /\ Len(siblings(Self, k)) = depth
       /\ imt_root_loop(hasher_factory,
                        hash(nodes[k], new_hasher(hasher_factory)),
                        nodes[k].index, siblings(Self, k), 1)
          = hashes[depth][0]

(***************************************************************************)
(* With the Keccak-256 factory the engine and the verifiers agree.         *)
(***************************************************************************)
InsertRoundTripKeccak == hasher_factory = Keccak => C1_InsertRoundTrip
UpdateRoundTripKeccak == hasher_factory = Keccak => C2_UpdateRoundTrip
RootRederivedKeccak == hasher_factory = Keccak => C10_RootRederived
FreshTreeKeccak == hasher_factory = Keccak => C18_FreshTree
RootUsesOwnHasherKeccak == hasher_factory = Keccak => C19_RootUsesOwnHasher
EveryNodeProvableKeccak == hasher_factory = Keccak => C22_EveryNodeProvable

====
